---- MODULE Spec2Model ----
(***************************************************************************)
(* BoardGameMechanicsAnalyser (src/main.py): the cleaning of the dataset,  *)
(* the top-N selection and the batch aggregation over the AI client.       *)
(*                                                                         *)
(* A Python str is a sequence of one-character strings, so that split,     *)
(* strip, replace and int() are computed character by character.           *)
(***************************************************************************)
EXTENDS Integers, Sequences, FiniteSets, TLC

VARIABLES
    file,                        \* the file at dataset_path: NoFile or a table
    dataset,                     \* self.dataset (rows with their index label)
    loaded,                      \* hasattr(self, 'cleaned_dataset')
    cleaned_dataset,             \* self.cleaned_dataset
    raised,                      \* exception of the last load_dataset_clean call
    top_request,                 \* last get_top_200_list call: arguments, exception
    top_200_list,                \* what that call returned
    pc,                          \* "idle", or "loop" inside the aggregation
    games,                       \* the top_200_list argument of the aggregation
    idx,                         \* position of the for loop (1-based)
    total_applicable_mechanics,  \* local of the aggregation
    mechanic_counter,            \* local Counter: <<key, count>> in insertion order
    all_mechanics,               \* local set
    clock,                       \* time units slept so far
    calls,                       \* this run's calls of model.generate_content
    printed,                     \* this run's "Error processing game" lines
    trace,                       \* this run's outcome per game, in loop order
    canned,                      \* the stub AI client's responses, by call number
    results                      \* outcome of each aggregation call so far

dataVars == <<file, dataset, loaded, cleaned_dataset, top_request, top_200_list, raised>>
aggVars  == <<pc, games, idx, total_applicable_mechanics, mechanic_counter,
              all_mechanics, clock, calls, printed, trace, canned, results>>
vars     == <<dataVars, aggVars>>

(***************************************************************************)
(* Bounds of the model.                                                    *)
(***************************************************************************)
\* rows of the input table
MaxRows == 3
\* games handed to one aggregation
MaxGames == 2
\* aggregation calls on one analyser
MaxRuns == 2
\* .head(200), src/main.py:66, scaled down so that the cut is reached;
\* "You can change the limit here for testing"
HeadLimit == 2

\* time.sleep(4)
Delay == 4
\* most_common(10) and [:-11:-1]
TopTen == 10

(***************************************************************************)
(* Generic helpers.                                                        *)
(***************************************************************************)
Range(s) == {s[i] : i \in DOMAIN s}

Min(a, b) == IF a <= b THEN a ELSE b

Max(a, b) == IF a >= b THEN a ELSE b

Abs(n) == IF n < 0 THEN 0 - n ELSE n

RECURSIVE SumSeq(_)
SumSeq(s) == IF s = <<>> THEN 0 ELSE Head(s) + SumSeq(Tail(s))

RECURSIVE GCD(_, _)
GCD(a, b) == IF b = 0 THEN a ELSE GCD(b, a % b)

SeqsUpTo(S, n) == UNION {[1..k -> S] : k \in 0..n}

(***************************************************************************)
(* Python str operations.                                                  *)
(***************************************************************************)
Whitespace == {" "}

Digits == {"0", "1", "2", "3", "4", "5", "6", "7", "8", "9"}

DigitVal(c) ==
    CASE c = "0" -> 0 [] c = "1" -> 1 [] c = "2" -> 2 [] c = "3" -> 3
      [] c = "4" -> 4 [] c = "5" -> 5 [] c = "6" -> 6 [] c = "7" -> 7
      [] c = "8" -> 8 [] c = "9" -> 9

RECURSIVE LStrip(_)
LStrip(s) ==
    IF s # <<>> /\ Head(s) \in Whitespace THEN LStrip(Tail(s)) ELSE s

RECURSIVE RStrip(_)
RStrip(s) ==
    IF s # <<>> /\ s[Len(s)] \in Whitespace
    THEN RStrip(SubSeq(s, 1, Len(s) - 1))
    ELSE s

\* str.strip()
Strip(s) == RStrip(LStrip(s))

StartsWith(s, p) == Len(s) >= Len(p) /\ SubSeq(s, 1, Len(p)) = p

\* str.replace(old, new): leftmost non-overlapping occurrences
RECURSIVE Replace(_, _, _)
Replace(s, old, new) ==
    IF s = <<>> THEN <<>>
    ELSE IF StartsWith(s, old)
         THEN new \o Replace(SubSeq(s, Len(old) + 1, Len(s)), old, new)
         ELSE <<Head(s)>> \o Replace(Tail(s), old, new)

\* str.split(","): "".split(",") is [""]
RECURSIVE Split(_)
Split(s) ==
    IF \A i \in DOMAIN s : s[i] # ","
    THEN <<s>>
    ELSE LET c == CHOOSE i \in DOMAIN s : s[i] = "," /\ \A j \in 1..(i - 1) : s[j] # ","
         IN  <<SubSeq(s, 1, c - 1)>> \o Split(SubSeq(s, c + 1, Len(s)))

\* str.count(",")
CountCommas(s) == Cardinality({i \in DOMAIN s : s[i] = ","})

RECURSIVE DigitsValue(_)
DigitsValue(s) ==
    IF s = <<>> THEN 0
    ELSE 10 * DigitsValue(SubSeq(s, 1, Len(s) - 1)) + DigitVal(s[Len(s)])

\* int(text.strip()): optional sign, then one or more decimal digits; anything
\* else raises ValueError (ok = FALSE)
ParseInt(text) ==
    LET t      == Strip(text)
        signed == t # <<>> /\ Head(t) \in {"+", "-"}
        body   == IF signed THEN Tail(t) ELSE t
    IN  IF body # <<>> /\ \A i \in DOMAIN body : body[i] \in Digits
        THEN [ok |-> TRUE,
              val |-> IF signed /\ Head(t) = "-" THEN 0 - DigitsValue(body)
                                                 ELSE DigitsValue(body)]
        ELSE [ok |-> FALSE, val |-> 0]

\* list[:k]: a nonnegative k counts from the front, a negative k drops the
\* last -k entries
Slice(lst, k) ==
    IF k >= 0 THEN SubSeq(lst, 1, Min(k, Len(lst)))
              ELSE SubSeq(lst, 1, Max(Len(lst) + k, 0))

(***************************************************************************)
(* The dataset: pandas rows.  A row holds its cells by column name and the *)
(* set `na` of the columns whose cell is null (NaN); the cell stored for a *)
(* null is a placeholder that nothing reads.                               *)
(***************************************************************************)
AllColumns == {"Name", "Year Published", "Mechanics", "Rating Average"}

\* required_columns
required_columns == {"Name", "Year Published", "Mechanics"}

Row(name, year, mechanics, rating, na) ==
    [cells |-> ("Name" :> name) @@ ("Year Published" :> year)
                 @@ ("Mechanics" :> mechanics) @@ ("Rating Average" :> rating),
     na    |-> na]

RowSet ==
    { Row("G1", 2000, <<"A", ",", "B">>, 7, {}),
      Row("G2", 1999, <<"B">>, 7, {}),
      Row("G3", 2000, <<"C">>, 8, {}),
      Row("G4", 0, <<"A">>, 9, {}),
      Row("G5", 2001, <<"A">>, 0, {"Rating Average"}),
      Row("", 1998, <<"A">>, 6, {"Name"}),
      Row("G7", 0, <<"A">>, 6, {"Year Published"}),
      Row("G8", 2002, <<>>, 5, {"Mechanics"}) }

NoFile == [exists |-> FALSE, columns |-> {}, rows |-> <<>>]

Table(columns, rows) == [exists |-> TRUE, columns |-> columns, rows |-> rows]

ColumnSets ==
    {AllColumns, AllColumns \ {"Rating Average"}, AllColumns \ {"Mechanics"}}

Files ==
    {NoFile} \cup {Table(cs, rs) : cs \in ColumnSets, rs \in SeqsUpTo(RowSet, MaxRows)}

NoFrame == [columns |-> {}, rows |-> <<>>]

NoRequest == [sort_by |-> "", ascending |-> FALSE, raised |-> "not called"]

\* pd.read_csv: every row gets its position as index label and the cells of
\* the columns the header names
ReadCsv(f) ==
    [columns |-> f.columns,
     rows    |-> [i \in 1..Len(f.rows) |->
                    [index |-> i,
                     cells |-> [c \in f.columns |-> f.rows[i].cells[c]],
                     na    |-> f.rows[i].na \cap f.columns]]]

DropNaAll(rows, subset) ==
    LET Keep(r) == ~(subset \subseteq r.na) IN SelectSeq(rows, Keep)

\* DataFrame.dropna(subset=...): drop a row when any cell of subset is null
DropNa(rows, subset) ==
    LET Keep(r) == r.na \cap subset = {} IN SelectSeq(rows, Keep)

\* df[df['Year Published'] != 0]: NaN != 0 is True
YearNonZero(rows) ==
    LET Keep(r) == "Year Published" \in r.na \/ r.cells["Year Published"] # 0
    IN  SelectSeq(rows, Keep)

\* load_dataset_clean(self, sep=";")
load_dataset_clean ==
    /\ pc = "idle"
    /\ IF ~file.exists
       THEN /\ raised' = "FileNotFoundError"
            /\ UNCHANGED <<dataset, loaded, cleaned_dataset>>
       ELSE /\ dataset' = ReadCsv(file)
            /\ IF ~(required_columns \subseteq dataset'.columns)
               THEN /\ raised' = "ValueError"
                    /\ UNCHANGED <<loaded, cleaned_dataset>>
               ELSE /\ cleaned_dataset' =
                         [columns |-> dataset'.columns,
                          rows    |-> YearNonZero(DropNa(dataset'.rows, required_columns))]
                    /\ loaded' = TRUE
                    /\ raised' = "none"
    /\ UNCHANGED <<file, top_request, top_200_list, aggVars>>

(***************************************************************************)
(* get_top_200_list.                                                       *)
(***************************************************************************)
Perms(n) == {p \in [1..n -> 1..n] : \A i, j \in 1..n : p[i] = p[j] => i = j}

IgnoreDirection(a, b, by, ascending) ==
    IF by \in b.na THEN TRUE
    ELSE IF by \in a.na THEN FALSE
    ELSE a.cells[by] <= b.cells[by]

\* a may stand before b in the sorted frame: nulls last (na_position),
\* otherwise by the key in the requested direction
MayPrecede(a, b, by, ascending) ==
    IF by \in b.na THEN TRUE
    ELSE IF by \in a.na THEN FALSE
    ELSE IF ascending THEN a.cells[by] <= b.cells[by]
                      ELSE a.cells[by] >= b.cells[by]

\* DataFrame.sort_values(by=, ascending=) with the default kind='quicksort',
\* which is not stable: every ordered arrangement of the rows is a possible
\* outcome
SortValues(rows, by, ascending) ==
    { [i \in 1..Len(rows) |-> rows[p[i]]] : p \in
        { q \in Perms(Len(rows)) :
            \A i, j \in 1..Len(rows) :
                i < j => MayPrecede(rows[q[i]], rows[q[j]], by, ascending) } }

\* DataFrame.head(n)
DfHead(rows, n) == SubSeq(rows, 1, Min(n, Len(rows)))

\* DataFrame.to_dict(orient='records'): the index label is not part of a record
ToDict(rows) ==
    [i \in 1..Len(rows) |-> [cells |-> rows[i].cells, na |-> rows[i].na]]

SortRequests == {"Rating Average", "Year Published", "Designer"}

\* get_top_200_list(self, sort_by, ascending)
get_top_200_list(sort_by, ascending) ==
    /\ pc = "idle"
    /\ top_request' =
           [sort_by |-> sort_by, ascending |-> ascending,
            raised  |-> IF ~loaded THEN "AttributeError"
                        ELSE IF sort_by \notin cleaned_dataset.columns THEN "ValueError"
                        ELSE "none"]
    /\ IF top_request'.raised # "none"
       THEN top_200_list' = <<>>
       ELSE \E sorted \in SortValues(cleaned_dataset.rows, sort_by, ascending) :
                top_200_list' = ToDict(DfHead(sorted, HeadLimit))
    /\ UNCHANGED <<file, dataset, loaded, cleaned_dataset, raised, aggVars>>

AggIdle ==
    /\ pc = "idle" /\ games = <<>> /\ idx = 1
    /\ total_applicable_mechanics = 0 /\ mechanic_counter = <<>>
    /\ all_mechanics = {} /\ clock = 0 /\ calls = <<>> /\ printed = <<>>
    /\ trace = <<>> /\ canned = <<>> /\ results = <<>>

\* the analyser after __init__, over any file
InitData ==
    /\ file \in Files
    /\ dataset = NoFrame /\ loaded = FALSE /\ cleaned_dataset = NoFrame
    /\ top_request = NoRequest /\ top_200_list = <<>> /\ raised = "none"
    /\ AggIdle

NextData ==
    \/ load_dataset_clean
    \/ \E sort_by \in SortRequests, ascending \in BOOLEAN :
           get_top_200_list(sort_by, ascending)

SpecData == InitData /\ [][NextData]_vars

(***************************************************************************)
(* calculate_total_applicable_mechanics: the batch over the AI client.     *)
(* A game is a Python dict: a function from its keys to its values.        *)
(***************************************************************************)
GameRecords ==
    { ("Name" :> "G1") @@ ("Mechanics" :> <<"A", ",", " ", "B">>)
          @@ ("Year Published" :> 2000),
      ("Name" :> "G2") @@ ("Mechanics" :> <<"B", ",", "C", " ", "o", "r", " ", "D">>)
          @@ ("Year Published" :> 1999) @@ ("Rating Average" :> 7),
      ("Name" :> "G3") @@ ("Year Published" :> 2001),
      ("Mechanics" :> <<"A">>) }

GameLists == SeqsUpTo(GameRecords, MaxGames)

\* what one call of self.model.generate_content can do: raise, or return a
\* response with this text
ClientError == [kind |-> "error", text |-> <<>>]

Response(text) == [kind |-> "text", text |-> text]

Outcomes ==
    { ClientError,
      Response(<<" ", "1", " ">>), Response(<<"2">>), Response(<<"3">>),
      Response(<<"0">>), Response(<<"-", "1">>), Response(<<"x">>) }

\* a deterministic stub client: call number n of every run gets the same
\* outcome
StubOutcomes(n) == IF n <= Len(canned) THEN {canned[n]} ELSE Outcomes

\* mechanics_prompt and the two values the f-string interpolates
BuildPrompt(game_name, mechanics) ==
    [game_name        |-> game_name,
     mechanics_prompt |->
        Replace(Replace(Replace(mechanics, <<",">>, <<",", " ">>),
                        <<" ", "a", "n", "d", " ">>, <<",", " ">>),
                <<" ", "o", "r", " ">>, <<",", " ">>)]

\* all_mechanics.update(mechanics.split(","))
AllMechanicsUpdate(all, mechanics) == all \cup Range(Split(mechanics))

RunningTotalLast(total, k) == k

\* total_applicable_mechanics += applicable_mechanics
RunningTotal(total, k) == total + k

\* Counter.update(iterable): one more for each element, new keys appended
RECURSIVE CounterUpdate(_, _)
CounterUpdate(counter, elems) ==
    IF elems = <<>> THEN counter
    ELSE LET e    == Head(elems)
             hit  == {i \in DOMAIN counter : counter[i][1] = e}
             next == IF hit = {}
                     THEN Append(counter, <<e, 1>>)
                     ELSE [i \in DOMAIN counter |->
                             IF i \in hit THEN <<e, counter[i][2] + 1>> ELSE counter[i]]
         IN  CounterUpdate(next, Tail(elems))

\* mechanic_counter.keys()
Keys(counter) == {counter[i][1] : i \in DOMAIN counter}

\* time.sleep(4)
Sleep(now) == now + Delay

\* sorted(items, key=count, reverse=True): ties stay in insertion order
RECURSIVE SortedByCount(_)
SortedByCount(items) ==
    IF items = <<>> THEN <<>>
    ELSE LET init == SortedByCount(SubSeq(items, 1, Len(items) - 1))
             it   == items[Len(items)]
             n    == Cardinality({i \in DOMAIN init : init[i][2] >= it[2]})
         IN  SubSeq(init, 1, n) \o <<it>> \o SubSeq(init, n + 1, Len(init))

\* mechanic_counter.most_common(10)
TopTenMechanics(counter) ==
    LET mc == SortedByCount(counter) IN SubSeq(mc, 1, Min(TopTen, Len(mc)))

\* mechanic_counter.most_common()[:-11:-1]
LeastTenMechanics(counter) ==
    LET mc == SortedByCount(counter)
    IN  [i \in 1..Min(TopTen, Len(mc)) |-> mc[Len(mc) - i + 1]]

\* all_mechanics - set(mechanic_counter.keys())
Unassigned(all, counter) == all \ Keys(counter)

GroundTruthMechanics(top) ==
    SumSeq([i \in 1..Len(top) |->
              IF "Mechanics" \in DOMAIN top[i]
              THEN CountCommas(top[i]["Mechanics"]) + 1 ELSE 0])

\* sum(len(key) for key in top_200_list): len of a dict is its number of keys
GroundTruth(top) ==
    SumSeq([i \in 1..Len(top) |-> Cardinality(DOMAIN top[i])])

\* the float n / d as the fraction in lowest terms
Ratio(n, d) ==
    LET g == GCD(Abs(n), Abs(d))
        s == IF d < 0 THEN 0 - 1 ELSE 1
    IN  [num |-> s * (n \div g), den |-> s * (d \div g)]

NoRatio == [num |-> 0, den |-> 0]

TrueDivOrZero(n, d) ==
    IF d = 0 THEN [ok |-> TRUE, val |-> Ratio(0, 1)] ELSE [ok |-> TRUE, val |-> Ratio(n, d)]

\* n / d: ZeroDivisionError when d is 0
TrueDiv(n, d) ==
    IF d = 0 THEN [ok |-> FALSE, val |-> NoRatio] ELSE [ok |-> TRUE, val |-> Ratio(n, d)]

\* an aggregation call that ended in the exception e
Raised(e) ==
    [status |-> e, average |-> NoRatio, least_ten |-> <<>>, top_ten |-> <<>>,
     unassigned |-> {}]

KeepLocals(prev) == prev

\* the three locals as the function body starts
NewLocals(prev) == [total |-> 0, counter |-> <<>>, all |-> {}]

\* entry of calculate_total_applicable_mechanics(self, top_200_list); a
\* repeated call is made with the same argument
calculate_total_applicable_mechanics_enter(top) ==
    /\ pc = "idle"
    /\ Len(results) < MaxRuns
    /\ results = <<>> \/ top = games
    /\ games' = top
    /\ calls' = <<>> /\ printed' = <<>> /\ trace' = <<>>
    /\ IF ~loaded
       THEN /\ results' = Append(results, Raised("AttributeError"))
            /\ UNCHANGED <<pc, idx, total_applicable_mechanics, mechanic_counter,
                           all_mechanics>>
       ELSE LET locals == NewLocals([total   |-> total_applicable_mechanics,
                                     counter |-> mechanic_counter,
                                     all     |-> all_mechanics])
            IN  /\ pc' = "loop"
                /\ idx' = 1
                /\ total_applicable_mechanics' = locals.total
                /\ mechanic_counter' = locals.counter
                /\ all_mechanics' = locals.all
                /\ UNCHANGED results
    /\ UNCHANGED <<dataVars, clock, canned>>

Entry(game, reached, called, ok, k, assigned, error) ==
    [game |-> game, reached |-> reached, called |-> called, ok |-> ok, k |-> k,
     assigned |-> assigned, error |-> error]

\* one iteration of the for loop: the try body and its except handler
calculate_total_applicable_mechanics_game ==
    /\ pc = "loop"
    /\ idx <= Len(games)
    /\ LET game == games[idx] IN
       IF "Name" \notin DOMAIN game
       THEN \* game['Name'] raises KeyError, and so does the handler's f-string
            /\ pc' = "idle"
            /\ results' = Append(results, Raised("KeyError"))
            /\ trace' = Append(trace, Entry(idx, FALSE, FALSE, FALSE, 0, <<>>, "KeyError"))
            /\ UNCHANGED <<games, idx, total_applicable_mechanics, mechanic_counter,
                           all_mechanics, clock, calls, printed, canned>>
       ELSE IF "Mechanics" \notin DOMAIN game
       THEN \* game['Mechanics'] raises KeyError, which the handler prints
            /\ printed' = Append(printed, [game |-> game["Name"], error |-> "KeyError"])
            /\ trace' = Append(trace, Entry(idx, FALSE, FALSE, FALSE, 0, <<>>, "KeyError"))
            /\ idx' = idx + 1
            /\ UNCHANGED <<pc, games, total_applicable_mechanics, mechanic_counter,
                           all_mechanics, clock, calls, canned, results>>
       ELSE \E outcome \in StubOutcomes(Len(calls) + 1) :
            LET mechanics == game["Mechanics"]
                parsed    == IF outcome.kind = "text" THEN ParseInt(outcome.text)
                                                      ELSE [ok |-> FALSE, val |-> 0]
                applicable_mechanics_list == Slice(Split(mechanics), parsed.val)
                stripped  == [i \in 1..Len(applicable_mechanics_list) |->
                                Strip(applicable_mechanics_list[i])]
                error     == IF outcome.kind = "error" THEN "ClientError" ELSE "ValueError"
            IN  /\ all_mechanics' = AllMechanicsUpdate(all_mechanics, mechanics)
                /\ calls' = Append(calls, [game    |-> idx,
                                           at      |-> clock,
                                           prompt  |-> BuildPrompt(game["Name"], mechanics),
                                           outcome |-> outcome])
                /\ canned' = IF Len(calls) + 1 <= Len(canned) THEN canned
                                                              ELSE Append(canned, outcome)
                /\ idx' = idx + 1
                /\ IF parsed.ok
                   THEN /\ total_applicable_mechanics' =
                               RunningTotal(total_applicable_mechanics, parsed.val)
                        /\ mechanic_counter' = CounterUpdate(mechanic_counter, stripped)
                        /\ clock' = Sleep(clock)
                        /\ trace' = Append(trace, Entry(idx, TRUE, TRUE, TRUE, parsed.val,
                                                        stripped, "none"))
                        /\ UNCHANGED printed
                   ELSE /\ printed' = Append(printed, [game |-> game["Name"], error |-> error])
                        /\ trace' = Append(trace, Entry(idx, TRUE, TRUE, FALSE, 0, <<>>, error))
                        /\ UNCHANGED <<total_applicable_mechanics, mechanic_counter, clock>>
                /\ UNCHANGED <<pc, games, results>>
    /\ UNCHANGED dataVars

\* after the loop: the ground truth, the average, the rankings, the return
calculate_total_applicable_mechanics_finish ==
    /\ pc = "loop"
    /\ idx > Len(games)
    /\ pc' = "idle"
    /\ LET total_length_top_200 == GroundTruth(games)
           average_applicable_mechanics ==
               TrueDiv(total_applicable_mechanics, total_length_top_200)
       IN  results' = Append(results,
               IF ~average_applicable_mechanics.ok
               THEN Raised("ZeroDivisionError")
               ELSE [status     |-> "returned",
                     average    |-> average_applicable_mechanics.val,
                     least_ten  |-> LeastTenMechanics(mechanic_counter),
                     top_ten    |-> TopTenMechanics(mechanic_counter),
                     unassigned |-> Unassigned(all_mechanics, mechanic_counter)])
    /\ UNCHANGED <<dataVars, games, idx, total_applicable_mechanics, mechanic_counter,
                   all_mechanics, clock, calls, printed, trace, canned>>

\* the dataset file of the aggregation runs
ExampleFile == Table(AllColumns, <<Row("G1", 2000, <<"A", ",", " ", "B">>, 7, {})>>)

\* the analyser after __init__
Init ==
    /\ file = ExampleFile
    /\ dataset = NoFrame /\ loaded = FALSE /\ cleaned_dataset = NoFrame
    /\ top_request = NoRequest /\ top_200_list = <<>> /\ raised = "none"
    /\ AggIdle

Next ==
    \/ load_dataset_clean
    \/ \E top \in GameLists : calculate_total_applicable_mechanics_enter(top)
    \/ calculate_total_applicable_mechanics_game
    \/ calculate_total_applicable_mechanics_finish

Spec == Init /\ [][Next]_vars

(***************************************************************************)
(* Properties of the aggregation, checked under Spec.                      *)
(***************************************************************************)
Last(s) == s[Len(s)]

\* an aggregation call has just ended by returning its four results
Returned == pc = "idle" /\ results # <<>> /\ Last(results).status = "returned"

\* the comma-split mechanics of game number i of the argument
SplitOf(i) == Split(games[i]["Mechanics"])

\* the count parsed from call number c of this run, 0 when there is none
ParsedCount(c) ==
    IF calls[c].outcome.kind = "text" /\ ParseInt(calls[c].outcome.text).ok
    THEN ParseInt(calls[c].outcome.text).val
    ELSE 0

CallSucceeded(c) ==
    calls[c].outcome.kind = "text" /\ ParseInt(calls[c].outcome.text).ok

\* C1: every per-game failure (client error, response that is no integer,
\* record without Name or without Mechanics) is printed and the loop goes on
\* to the next game: no aggregation call ends in the exception of a game, and
\* a call that ran its loop to a result went through every game.
C1_FailuresAreLoggedAndSkipped ==
    /\ \A r \in DOMAIN results : results[r].status # "KeyError"
    /\ Len(printed) = Cardinality({i \in DOMAIN trace : trace[i].error # "none"})
    /\ (pc = "idle" /\ results # <<>> /\ Last(results).status # "AttributeError")
           => Len(trace) = Len(games)

\* C2: for a game whose response parses to k, the entries incremented in the
\* tally are the trimmed first k entries of the split list when 0 < k <= length,
\* all entries when k > length, and none when k <= 0.
C2_AssignedIsClampedPrefix ==
    \A i \in DOMAIN trace :
        trace[i].ok =>
            LET lst == SplitOf(trace[i].game)
                n   == IF trace[i].k <= 0 THEN 0 ELSE Min(trace[i].k, Len(lst))
            IN  trace[i].assigned = [j \in 1..n |-> Strip(lst[j])]

\* C3: the running total is the sum of the parsed counts of the games whose
\* call and parse succeeded, each count unclamped; a game whose call or parse
\* failed adds nothing to the total and nothing to the tally.
C3_TotalIsSumOfParsedCounts ==
    /\ total_applicable_mechanics = SumSeq([c \in DOMAIN calls |-> ParsedCount(c)])
    /\ SumSeq([i \in DOMAIN mechanic_counter |-> mechanic_counter[i][2]])
         = SumSeq([c \in DOMAIN calls |->
                     IF CallSucceeded(c)
                     THEN Len(Slice(SplitOf(calls[c].game), ParsedCount(c)))
                     ELSE 0])
    /\ \A i \in DOMAIN trace :
           ~trace[i].ok => trace[i].assigned = <<>> /\ trace[i].k = 0

\* a run that returned after a failed game, a game counted above the length
\* of its list, and a total of more than that one count
C3_Witness ==
    /\ Returned
    /\ \E i, j \in DOMAIN trace :
           /\ ~trace[i].ok /\ trace[i].called
           /\ trace[j].ok /\ trace[j].k > Len(SplitOf(trace[j].game))
    /\ total_applicable_mechanics = 3

\* C4: when the aggregation returns, all_mechanics holds every untrimmed split
\* substring of every game the loop reached, failed games included; the
\* returned set is all_mechanics minus the tally's keys; so a mechanic that is
\* listed only by failed games or only beyond position k of a game is in the
\* returned set, and no tally key is in it.
C4_NeverAssigned ==
    Returned =>
        /\ all_mechanics =
               UNION {Range(SplitOf(i)) :
                        i \in {j \in DOMAIN games : "Mechanics" \in DOMAIN games[j]}}
        /\ Last(results).unassigned = all_mechanics \ Keys(mechanic_counter)
        /\ \A key \in Keys(mechanic_counter) : key \notin Last(results).unassigned
        /\ \A s \in all_mechanics :
               (\A i \in DOMAIN trace :
                    trace[i].reached =>
                        \A j \in DOMAIN SplitOf(trace[i].game) :
                            Strip(SplitOf(trace[i].game)[j]) = Strip(s)
                                => (~trace[i].ok \/ j > trace[i].k))
                   => s \in Last(results).unassigned

\* C5: between two successive calls of the AI client the fixed delay elapses,
\* whatever the earlier call did.
C5_DelayBetweenCalls ==
    \A c \in 1..(Len(calls) - 1) : calls[c + 1].at - calls[c].at >= Delay

C9_SecondRunIsIdentical ==
    \A r \in 1..(Len(results) - 1) :
        results[r].status # "AttributeError" => results[r + 1] = results[r]

\* two runs that both returned a ranking of two mechanics
C9_Witness ==
    /\ Len(results) >= 2
    /\ results[1].status = "returned" /\ results[2].status = "returned"
    /\ Len(results[2].top_ten) >= 2
    /\ results[2].unassigned # {}

\* the records all carry Name and Mechanics
WellFormed(top) ==
    \A i \in DOMAIN top : {"Name", "Mechanics"} \subseteq DOMAIN top[i]

FieldCount(top) == SumSeq([i \in DOMAIN top |-> Cardinality(DOMAIN top[i])])

Survives(n) ==
    /\ file.rows[n].na \cap required_columns = {}
    /\ file.rows[n].cells["Year Published"] # 0

\* C6: for a table with the three required columns, load_dataset_clean returns
\* exactly the rows whose Name, Year Published and Mechanics are non-null and
\* whose Year Published is not 0, in their original relative order, none
\* twice.
C6_CleanedIsTheValidRowsInOrder ==
    loaded =>
        LET kept == cleaned_dataset.rows IN
        /\ \A i \in DOMAIN kept :
               /\ kept[i].index \in DOMAIN file.rows
               /\ Survives(kept[i].index)
               /\ kept[i].na = file.rows[kept[i].index].na \cap file.columns
               /\ \A c \in file.columns :
                      kept[i].cells[c] = file.rows[kept[i].index].cells[c]
        /\ \A n \in DOMAIN file.rows :
               Survives(n) => \E i \in DOMAIN kept : kept[i].index = n
        /\ \A i, j \in DOMAIN kept : i < j => kept[i].index < kept[j].index

\* a table of three rows of which the two valid ones are kept, one is dropped
\* for its year 0 or one for a null required cell
C6_Witness ==
    /\ loaded
    /\ Len(file.rows) = 3
    /\ Len(cleaned_dataset.rows) = 2
    /\ \E n \in DOMAIN file.rows :
           file.rows[n].na = {} /\ file.rows[n].cells["Year Published"] = 0

\* the last get_top_200_list call returned a list
TopReturned == top_request.raised = "none"

\* the stable sort of rows by the field, nulls last
RECURSIVE StableSort(_, _, _)
StableSort(rows, by, ascending) ==
    IF rows = <<>> THEN <<>>
    ELSE LET init == StableSort(SubSeq(rows, 1, Len(rows) - 1), by, ascending)
             x    == rows[Len(rows)]
             Before(e) ==
                 IF by \in x.na THEN TRUE
                 ELSE IF by \in e.na THEN FALSE
                 ELSE IF ascending THEN e.cells[by] <= x.cells[by]
                                   ELSE e.cells[by] >= x.cells[by]
             n    == Cardinality({i \in DOMAIN init : Before(init[i])})
         IN  SubSeq(init, 1, n) \o <<x>> \o SubSeq(init, n + 1, Len(init))

\* C7 as stated: get_top_200_list returns the first min(limit, size) records
\* of the stable sort of the cleaned dataset by the field in the requested
\* direction, records of equal field value in their dataset order.
C7_TopIsPrefixOfStableSort ==
    TopReturned =>
        top_200_list =
            [i \in 1..Min(HeadLimit, Len(cleaned_dataset.rows)) |->
               LET r == StableSort(cleaned_dataset.rows, top_request.sort_by,
                                   top_request.ascending)[i]
               IN  [cells |-> r.cells, na |-> r.na]]

\* a stands no later than b in the requested order of the field, nulls last
InRequestedOrder(a, b) ==
    LET by == top_request.sort_by IN
    \/ by \in b.na
    \/ /\ by \notin a.na
       /\ \/ top_request.ascending /\ a.cells[by] <= b.cells[by]
          \/ ~top_request.ascending /\ a.cells[by] >= b.cells[by]

\* C7 amended: get_top_200_list returns min(limit, size) records of the cleaned
\* dataset, each row at most once, ordered by the field in the requested
\* direction with null field values last, and no row left out belongs before
\* a returned one; the order among records of equal field value is not
\* determined.
C7_TopIsPrefixOfSomeSort ==
    TopReturned =>
        LET rows == cleaned_dataset.rows IN
        /\ Len(top_200_list) = Min(HeadLimit, Len(rows))
        /\ \A i, j \in DOMAIN top_200_list :
               i < j => InRequestedOrder(top_200_list[i], top_200_list[j])
        /\ \E m \in [DOMAIN top_200_list -> DOMAIN rows] :
               /\ \A i, j \in DOMAIN top_200_list : m[i] = m[j] => i = j
               /\ \A i \in DOMAIN top_200_list :
                      /\ top_200_list[i].cells = rows[m[i]].cells
                      /\ top_200_list[i].na = rows[m[i]].na
               /\ \A n \in DOMAIN rows :
                      (\A i \in DOMAIN top_200_list : m[i] # n)
                          => \A i \in DOMAIN top_200_list :
                                 InRequestedOrder(top_200_list[i], rows[n])

\* a cut list whose records tie on the sort field and stand in the reverse of
\* their dataset order
C7_Witness ==
    /\ TopReturned
    /\ Len(cleaned_dataset.rows) > HeadLimit
    /\ Len(top_200_list) = HeadLimit
    /\ top_request.sort_by \notin top_200_list[1].na
    /\ top_200_list[1].cells[top_request.sort_by]
         = top_200_list[2].cells[top_request.sort_by]
    /\ \E i, j \in DOMAIN cleaned_dataset.rows :
           /\ i < j
           /\ cleaned_dataset.rows[j].cells = top_200_list[1].cells
           /\ cleaned_dataset.rows[i].cells = top_200_list[2].cells
           /\ cleaned_dataset.rows[i].cells # cleaned_dataset.rows[j].cells

====
